---------------------------- MODULE Spec2Model ----------------------------
(***************************************************************************)
(* A model of recipebook_api: the page scraper (recipe_scraper.rs), the    *)
(* LLM-backed recipe extractor (llm_utils.rs) and the orchestrator         *)
(* (main.rs).                                                              *)
(*                                                                         *)
(* Text is modelled as a sequence of symbols.  A symbol is one character   *)
(* ("a", " ", "{"), except in HTML documents, where a tag such as          *)
(* "<body>" is one symbol (the tokenizer's unit), and in a few fixed       *)
(* literals the program never inspects (a URL, a status reason phrase).    *)
(***************************************************************************)
EXTENDS Integers, Sequences, FiniteSets, TLC

(***************************************************************************)
(* Bounds of the model.                                                    *)
(***************************************************************************)
\* pieces concatenated into a free-form message content
MaxPieces == 4
\* members of a generated JSON object payload
MaxKeys == 2
\* symbols of a fetched HTML document
MaxHtmlLen == 3
\* choices of a chat response
MaxChoices == 2

(***************************************************************************)
(* str primitives (Rust std).                                              *)
(***************************************************************************)
\* char::is_whitespace, on the model's alphabet
IsWs(c) == c \in {" ", "\n", "\t"}

RECURSIVE TrimStart(_)
\* str::trim_start
TrimStart(s) ==
    IF s /= <<>> /\ IsWs(Head(s)) THEN TrimStart(Tail(s)) ELSE s

RECURSIVE TrimEnd(_)
\* str::trim_end
TrimEnd(s) ==
    IF s /= <<>> /\ IsWs(s[Len(s)]) THEN TrimEnd(SubSeq(s, 1, Len(s) - 1)) ELSE s

\* str::trim
Trim(s) == TrimEnd(TrimStart(s))

\* str::starts_with
StartsWith(s, p) == Len(p) <= Len(s) /\ SubSeq(s, 1, Len(p)) = p

\* str::ends_with
EndsWith(s, p) == Len(p) <= Len(s) /\ SubSeq(s, Len(s) - Len(p) + 1, Len(s)) = p

RECURSIVE TrimStartMatches(_, _)
\* str::trim_start_matches: every leading repetition of the pattern is removed
TrimStartMatches(s, p) ==
    IF p /= <<>> /\ StartsWith(s, p)
    THEN TrimStartMatches(SubSeq(s, Len(p) + 1, Len(s)), p)
    ELSE s

RECURSIVE TrimEndMatches(_, _)
\* str::trim_end_matches: every trailing repetition of the pattern is removed
TrimEndMatches(s, p) ==
    IF p /= <<>> /\ EndsWith(s, p)
    THEN TrimEndMatches(SubSeq(s, 1, Len(s) - Len(p)), p)
    ELSE s

\* char::to_lowercase, on the model's alphabet
LowerChar(c) ==
    CASE c = "N" -> "n"
      [] c = "U" -> "u"
      [] c = "L" -> "l"
      [] c = "A" -> "a"
      [] OTHER -> c

\* str::to_lowercase
ToLowercase(s) == [i \in 1..Len(s) |-> LowerChar(s[i])]

\* str::trim().is_empty()
IsBlank(s) == Trim(s) = <<>>

(***************************************************************************)
(* llm_utils.rs: the literals of the cleaning step and of the field        *)
(* extraction.                                                             *)
(***************************************************************************)
\* the backquote character U+0060, which a TLA+ string literal cannot hold
Backtick == "^"
FenceJson == <<Backtick, Backtick, Backtick, "j", "s", "o", "n">>
Fence == <<Backtick, Backtick, Backtick>>
NullStr == <<"n", "u", "l", "l">>
KeyIngredients == <<"i", "n", "g", "r", "e", "d", "i", "e", "n", "t", "s">>
KeyPrepTime == <<"p", "r", "e", "p", "_", "t", "i", "m", "e">>
KeyCookTime == <<"c", "o", "o", "k", "_", "t", "i", "m", "e">>
KeyTotalTime == <<"t", "o", "t", "a", "l", "_", "t", "i", "m", "e">>
KeyServings == <<"s", "e", "r", "v", "i", "n", "g", "s">>
ScalarKeys == {KeyPrepTime, KeyCookTime, KeyTotalTime, KeyServings}

\* the cleaning step without its final trim
CleanContentNoFinalTrim(content) ==
    TrimEndMatches(
        TrimStartMatches(TrimStartMatches(Trim(content), FenceJson), Fence),
        Fence)

\* the cleaning step without the untagged opening fence
CleanContentTaggedOnly(content) ==
    Trim(TrimEndMatches(TrimStartMatches(Trim(content), FenceJson), Fence))

\* cleaned_content: trim, strip the leading tagged fence, then the leading
\* untagged fence, then the trailing fence, trim again
CleanContent(content) ==
    Trim(
        TrimEndMatches(
            TrimStartMatches(TrimStartMatches(Trim(content), FenceJson), Fence),
            Fence))

(***************************************************************************)
(* serde_json::from_str into serde_json::Value, on texts without escapes,  *)
(* fractions, exponents, true or false.  A Value is one of                 *)
(*   [t |-> "null"], [t |-> "num", n |-> digits], [t |-> "str", s |-> text]*)
(*   [t |-> "arr", a |-> sequence of Values],                              *)
(*   [t |-> "obj", o |-> function from keys to Values].                    *)
(* A parse step returns [ok, v, pos]: pos is the first unread position.    *)
(***************************************************************************)
JNull == [t |-> "null"]
JNum(d) == [t |-> "num", n |-> d]
JStr(s) == [t |-> "str", s |-> s]
JArr(a) == [t |-> "arr", a |-> a]
JObj(o) == [t |-> "obj", o |-> o]
Digits == {"0", "1", "2", "3", "4", "5", "6", "7", "8", "9"}
\* the whitespace serde_json skips between tokens
IsJsonWs(c) == c \in {" ", "\n", "\t", "\r"}
ParseFail == [ok |-> FALSE]
ParseOk(v, pos) == [ok |-> TRUE, v |-> v, pos |-> pos]

RECURSIVE SkipWs(_, _)
SkipWs(s, i) == IF i <= Len(s) /\ IsJsonWs(s[i]) THEN SkipWs(s, i + 1) ELSE i

RECURSIVE ScanDigits(_, _)
ScanDigits(s, i) == IF i <= Len(s) /\ s[i] \in Digits THEN ScanDigits(s, i + 1) ELSE i

RECURSIVE ScanQuote(_, _)
\* the position of the closing quote at or after i, or 0
ScanQuote(s, i) ==
    IF i > Len(s) THEN 0 ELSE IF s[i] = "\"" THEN i ELSE ScanQuote(s, i + 1)

\* a string literal opening at position i
ParseString(s, i) ==
    LET j == ScanQuote(s, i + 1)
    IN  IF j = 0 THEN ParseFail ELSE ParseOk(SubSeq(s, i + 1, j - 1), j + 1)

\* a map insert: a repeated key keeps the last value
MapInsert(o, k, v) == [x \in DOMAIN o \cup {k} |-> IF x = k THEN v ELSE o[x]]

RECURSIVE ParseValue(_, _)
RECURSIVE ParseElems(_, _, _)
RECURSIVE ParseMembers(_, _, _)

\* one JSON value starting at or after position i
ParseValue(s, i0) ==
    LET i == SkipWs(s, i0)
    IN  IF i > Len(s) THEN ParseFail
        ELSE IF s[i] = "n"
        THEN IF i + 3 <= Len(s) /\ SubSeq(s, i, i + 3) = NullStr
             THEN ParseOk(JNull, i + 4)
             ELSE ParseFail
        ELSE IF s[i] \in Digits
        THEN LET j == ScanDigits(s, i)
             IN  IF s[i] = "0" /\ j > i + 1
                 THEN ParseFail
                 ELSE ParseOk(JNum(SubSeq(s, i, j - 1)), j)
        ELSE IF s[i] = "\""
        THEN LET r == ParseString(s, i)
             IN  IF r.ok THEN ParseOk(JStr(r.v), r.pos) ELSE ParseFail
        ELSE IF s[i] = "["
        THEN LET j == SkipWs(s, i + 1)
             IN  IF j <= Len(s) /\ s[j] = "]"
                 THEN ParseOk(JArr(<<>>), j + 1)
                 ELSE ParseElems(s, j, <<>>)
        ELSE IF s[i] = "{"
        THEN LET j == SkipWs(s, i + 1)
             IN  IF j <= Len(s) /\ s[j] = "}"
                 THEN ParseOk(JObj(<<>>), j + 1)
                 ELSE ParseMembers(s, j, <<>>)
        ELSE ParseFail

\* the elements of an array after "[" or ",", up to and including "]"
ParseElems(s, i, acc) ==
    LET r == ParseValue(s, i)
    IN  IF ~r.ok THEN ParseFail
        ELSE LET j == SkipWs(s, r.pos)
             IN  IF j > Len(s) THEN ParseFail
                 ELSE IF s[j] = "," THEN ParseElems(s, j + 1, Append(acc, r.v))
                 ELSE IF s[j] = "]" THEN ParseOk(JArr(Append(acc, r.v)), j + 1)
                 ELSE ParseFail

\* the members of an object after "{" or ",", up to and including "}"
ParseMembers(s, i0, acc) ==
    LET i == SkipWs(s, i0)
    IN  IF i > Len(s) \/ s[i] /= "\"" THEN ParseFail
        ELSE LET k == ParseString(s, i)
             IN  IF ~k.ok THEN ParseFail
                 ELSE LET c == SkipWs(s, k.pos)
                      IN  IF c > Len(s) \/ s[c] /= ":" THEN ParseFail
                          ELSE LET r == ParseValue(s, c + 1)
                               IN  IF ~r.ok THEN ParseFail
                                   ELSE LET j == SkipWs(s, r.pos)
                                            o == MapInsert(acc, k.v, r.v)
                                        IN  IF j > Len(s) THEN ParseFail
                                            ELSE IF s[j] = "," THEN ParseMembers(s, j + 1, o)
                                            ELSE IF s[j] = "}" THEN ParseOk(JObj(o), j + 1)
                                            ELSE ParseFail

\* serde_json::from_str::<Value>: one value, then only whitespace
FromStr(s) ==
    LET r == ParseValue(s, 1)
    IN  IF r.ok /\ SkipWs(s, r.pos) > Len(s) THEN [ok |-> TRUE, v |-> r.v] ELSE ParseFail

(***************************************************************************)
(* serde_json::Value accessors.                                            *)
(***************************************************************************)
None == [some |-> FALSE]
Some(x) == [some |-> TRUE, v |-> x]

\* the Index<&str>: Null unless an object holding the key
Index(v, key) == IF v.t = "obj" /\ key \in DOMAIN v.o THEN v.o[key] ELSE JNull

\* Value::as_array
AsArray(v) == IF v.t = "arr" THEN Some(v.a) ELSE None

\* Value::as_str
AsStr(v) == IF v.t = "str" THEN Some(v.s) ELSE None

(***************************************************************************)
(* llm_utils.rs: extract_recipe_info from the first choice's content on.   *)
(***************************************************************************)
RECURSIVE FilterMapStr(_)
\* .iter().filter_map(|v| v.as_str()).map(|s| s.trim().to_string())
FilterMapStr(a) ==
    IF a = <<>> THEN <<>>
    ELSE IF AsStr(Head(a)).some
         THEN <<Trim(AsStr(Head(a)).v)>> \o FilterMapStr(Tail(a))
         ELSE FilterMapStr(Tail(a))

\* ingredients: the string elements of recipe_data["ingredients"], trimmed
Ingredients(data) ==
    LET arr == AsArray(Index(data, KeyIngredients))
    IN  FilterMapStr(IF arr.some THEN arr.v ELSE <<>>)

\* the get_string closure: as_str, filter (non-empty and not "null"
\* lower-cased), then trim
get_string(data, key) ==
    LET s == AsStr(Index(data, key))
    IN  IF s.some /\ s.v /= <<>> /\ ToLowercase(s.v) /= NullStr
        THEN Some(Trim(s.v))
        ELSE None

\* the RecipeInfo built from the parsed payload
BuildRecipeInfo(data) ==
    [ingredients |-> Ingredients(data),
     prep_time |-> get_string(data, KeyPrepTime),
     cook_time |-> get_string(data, KeyCookTime),
     total_time |-> get_string(data, KeyTotalTime),
     servings |-> get_string(data, KeyServings)]

\* Result values: Ok(v), or Err of an error variant with its detail
Ok(v) == [ok |-> TRUE, v |-> v]
Err(kind, detail) == [ok |-> FALSE, err |-> kind, detail |-> detail]

\* cleaning, parsing and field extraction of one message content
RecipeFromContent(content) ==
    LET parsed == FromStr(CleanContent(content))
    IN  IF parsed.ok
        THEN Ok(BuildRecipeInfo(parsed.v))
        ELSE Err("ParseError", <<"Failed to parse recipe JSON">>)

(***************************************************************************)
(* recipe_scraper.rs: Html::parse_document and the two selectors.          *)
(*                                                                         *)
(* A document is a sequence of tokenizer symbols.  The tree construction   *)
(* is the HTML5 one the scraper crate runs (html5ever), restricted to the  *)
(* symbols of HtmlSymbols.  Three insertion modes are told apart:          *)
(*   "pre"        before the body element exists (initial .. after head),  *)
(*   "inBody"     the body element exists (in body, after body),           *)
(*   "inFrameset" a frameset took the body's place.                        *)
(* A <title> start tag switches the tokenizer to RCDATA: up to the next    *)
(* </title> every symbol is text of that title element.  The body element  *)
(* is implied by the first symbol that needs it and, at the latest, by the *)
(* end of the document.                                                    *)
(***************************************************************************)
HtmlSymbols ==
    {"<title>", "</title>", "<body>", "</body>", "<p>", "</p>", "<frameset>", "a", " "}

TreeInit ==
    [mode |-> "pre", rcdata |-> "no", rec |-> FALSE, bodyText |-> <<>>,
     framesetOk |-> TRUE, headTitle |-> None, bodyTitle |-> None]

\* the tree after one more symbol
TreeStep(st, tok) ==
    IF st.rcdata /= "no"
    THEN IF tok = "</title>"
         THEN [st EXCEPT !.rcdata = "no", !.rec = FALSE]
         ELSE IF st.rcdata = "head"
         THEN IF st.rec
              THEN [st EXCEPT !.headTitle = Some(st.headTitle.v \o <<tok>>)]
              ELSE st
         ELSE [st EXCEPT !.bodyText = st.bodyText \o <<tok>>,
                         !.bodyTitle = IF st.rec
                                       THEN Some(st.bodyTitle.v \o <<tok>>)
                                       ELSE st.bodyTitle]
    ELSE IF st.mode = "pre"
    THEN CASE IsWs(tok) -> st
           [] tok \in {"</title>", "</p>"} -> st
           [] tok = "<title>" ->
                [st EXCEPT !.rcdata = "head",
                           !.rec = ~st.headTitle.some,
                           !.headTitle = IF st.headTitle.some
                                         THEN st.headTitle
                                         ELSE Some(<<>>)]
           [] tok = "<body>" -> [st EXCEPT !.mode = "inBody", !.framesetOk = FALSE]
           [] tok \in {"</body>", "<p>"} -> [st EXCEPT !.mode = "inBody"]
           [] tok = "<frameset>" -> [st EXCEPT !.mode = "inFrameset"]
           [] OTHER ->
                [st EXCEPT !.mode = "inBody", !.framesetOk = FALSE,
                           !.bodyText = <<tok>>]
    ELSE IF st.mode = "inBody"
    THEN CASE IsWs(tok) -> [st EXCEPT !.bodyText = st.bodyText \o <<tok>>]
           [] tok \in {"</title>", "</p>", "<p>", "</body>"} -> st
           [] tok = "<title>" ->
                [st EXCEPT !.rcdata = "body",
                           !.rec = ~st.bodyTitle.some,
                           !.bodyTitle = IF st.bodyTitle.some
                                         THEN st.bodyTitle
                                         ELSE Some(<<>>)]
           [] tok = "<body>" -> [st EXCEPT !.framesetOk = FALSE]
           [] tok = "<frameset>" ->
                IF st.framesetOk
                THEN [st EXCEPT !.mode = "inFrameset", !.bodyText = <<>>,
                                !.bodyTitle = None]
                ELSE st
           [] OTHER ->
                [st EXCEPT !.framesetOk = FALSE,
                           !.bodyText = st.bodyText \o <<tok>>]
    ELSE st

RECURSIVE TreeBuild(_, _)
TreeBuild(st, html) ==
    IF html = <<>> THEN st ELSE TreeBuild(TreeStep(st, Head(html)), Tail(html))

\* Html::parse_document: the finished tree
ParseDocument(html) == TreeBuild(TreeInit, html)

\* document.select(&title_selector).next().map(|el| el.text().collect())
SelectTitleText(document) ==
    IF document.headTitle.some THEN document.headTitle
    ELSE document.bodyTitle

\* document.select(&body_selector).next().map(|el| el.text().collect())
SelectBodyText(document) ==
    IF document.mode = "inFrameset" THEN None ELSE Some(document.bodyText)

NoTitleFound == <<"N", "o", " ", "t", "i", "t", "l", "e", " ", "f", "o", "u", "n", "d">>

\* parse_response after the body text arrived
WebPageOf(html_content, url) ==
    IF IsBlank(html_content)
    THEN Err("EmptyContent", <<>>)
    ELSE LET document == ParseDocument(html_content)
             title == SelectTitleText(document)
             content == SelectBodyText(document)
         IN  Ok([url |-> url,
                 title |-> IF title.some THEN title.v ELSE NoTitleFound,
                 content |-> IF content.some THEN content.v ELSE html_content,
                 html |-> html_content])

(***************************************************************************)
(* Error displays and the detail of ApiError.                              *)
(***************************************************************************)
\* impl fmt::Display for ScraperError
ScraperErrorDisplay(e) ==
    CASE e.err = "NetworkError" -> <<"Network error: ">> \o e.detail
      [] e.err = "InvalidUrl" -> <<"Invalid URL: ">> \o e.detail
      [] e.err = "ParseError" -> <<"Parse error: ">> \o e.detail
      [] e.err = "TimeoutError" -> <<"Request timeout">>
      [] e.err = "EmptyContent" -> <<"No content found">>

RECURSIVE DecDigits(_)
\* the decimal digits of a natural number
DecDigits(n) ==
    LET d == <<"0", "1", "2", "3", "4", "5", "6", "7", "8", "9">>[(n % 10) + 1]
    IN  IF n < 10 THEN <<d>> ELSE DecDigits(n \div 10) \o <<d>>

\* StatusCode's Display: the code, a space, the canonical reason phrase
StatusDisplay(status) ==
    DecDigits(status) \o <<" ">> \o
    (CASE status = 200 -> <<"OK">>
       [] status = 404 -> <<"Not Found">>
       [] status = 500 -> <<"Internal Server Error">>
       [] OTHER -> <<"<unknown status code>">>)

\* format!("HTTP {}: {}", status, error_text)
ApiErrorDetail(status, error_text) ==
    <<"H", "T", "T", "P", " ">> \o StatusDisplay(status) \o <<":", " ">> \o error_text

\* a success test that lets client errors through
IsSuccessBelow500(status) == status < 500

\* StatusCode::is_success
IsSuccess(status) == 200 <= status /\ status < 300

\* indexing the last choice instead of the first
LastChoiceContent(choices) == choices[Len(choices)].message.content

\* &chat_response.choices[0].message.content
FirstChoiceContent(choices) == choices[1].message.content

(***************************************************************************)
(* The environment: URLs, fetched documents, chat-completion replies.      *)
(***************************************************************************)
\* the literal URL of main
MainUrl == <<"https://www.recipetineats.com/classic-lamingtons">>
\* URLs handed to scrape_webpage and get_webpage_content by other callers
Urls == {<<>>, <<"u">>}

RECURSIVE SeqsUpTo(_, _)
\* the sequences over S of length at most n
SeqsUpTo(S, n) ==
    IF n = 0 THEN {<<>>}
    ELSE LET shorter == SeqsUpTo(S, n - 1)
         IN  shorter \cup {Append(q, x) : q \in shorter, x \in S}

\* every document of at most MaxHtmlLen symbols
Docs == SeqsUpTo(HtmlSymbols, MaxHtmlLen)
\* the documents of the orchestrator's runs
MainDocs ==
    {<<>>, <<"<p>", "a">>,
     <<"<title>", "a", "</title>", "<body>", "a", " ", "a", "</body>">>}

Quote(txt) == <<"\"">> \o txt \o <<"\"">>
\* texts of the values a model may give a scalar field
ScalarTexts ==
    {NullStr, <<"5">>, Quote(<<>>), Quote(<<" ">>), Quote(NullStr),
     Quote(<<"N", "u", "L", "L">>), Quote(<<" ", "n", "u", "l", "l">>),
     Quote(<<"a">>), Quote(<<" ", "1", "0", " ", "m", "i", "n", " ">>)}
\* texts of the values a model may give "ingredients"
IngredientTexts ==
    {NullStr, Quote(<<"a">>), <<"[", "]">>,
     <<"[">> \o Quote(<<"A">>) \o <<",">> \o Quote(<<" ", "B", " ">>) \o <<",", "5", "]">>,
     <<"[">> \o Quote(<<>>) \o <<",", " ">> \o Quote(<<"a">>) \o <<"]">>,
     <<"[">> \o Quote(<<" ">>) \o <<"]">>}
PayloadKeys == <<KeyIngredients, KeyPrepTime, KeyCookTime, KeyTotalTime, KeyServings>>
MemberTexts(k) ==
    {Quote(k) \o <<":">> \o v :
        v \in IF k = KeyIngredients THEN IngredientTexts ELSE ScalarTexts}

RECURSIVE MemberSeqs(_, _)
\* at most n members, of distinct keys, in the order of ks
MemberSeqs(ks, n) ==
    IF ks = <<>> \/ n = 0 THEN {<<>>}
    ELSE MemberSeqs(Tail(ks), n)
         \cup {<<m>> \o r : m \in MemberTexts(Head(ks)), r \in MemberSeqs(Tail(ks), n - 1)}

RECURSIVE JoinComma(_)
JoinComma(ms) ==
    IF ms = <<>> THEN <<>>
    ELSE IF Len(ms) = 1 THEN ms[1]
    ELSE ms[1] \o <<",">> \o JoinComma(Tail(ms))

\* JSON object payloads of at most MaxKeys members
JsonPayloads == {<<"{">> \o JoinComma(ms) \o <<"}">> : ms \in MemberSeqs(PayloadKeys, MaxKeys)}

\* the payload of the specification's field-normalisation example
ExamplePayload ==
    <<"{">> \o Quote(KeyIngredients) \o <<":", " ", "[">> \o Quote(<<"A">>) \o <<",", " ">>
    \o Quote(<<" ", "B", " ">>) \o <<",", " ", "5", "]", ",", " ">>
    \o Quote(KeyPrepTime) \o <<":", " ">> \o Quote(NullStr) \o <<",", " ">>
    \o Quote(KeyCookTime) \o <<":", " ">> \o Quote(<<>>) \o <<",", " ">>
    \o Quote(KeyTotalTime) \o <<":", " ">> \o Quote(<<"1", "0", " ", "m", "i", "n">>) \o <<",", " ">>
    \o Quote(KeyServings) \o <<":", " ">> \o NullStr \o <<"}">>

\* the pieces of a free-form reply
Pieces == {Fence, <<"j", "s", "o", "n">>, <<" ">>, <<"x">>, <<"{", "}">>}

RECURSIVE Flatten(_)
Flatten(ps) == IF ps = <<>> THEN <<>> ELSE Head(ps) \o Flatten(Tail(ps))

\* free-form replies of at most MaxPieces pieces
PiecePayloads == {Flatten(ps) : ps \in SeqsUpTo(Pieces, MaxPieces)}

\* how a model wraps its payload: bare, or in a tagged or untagged fence,
\* with or without whitespace around the fences
Wraps ==
    {[kind |-> "bare", lead |-> <<>>, trail |-> <<>>]}
    \cup {[kind |-> k, lead |-> w[1], trail |-> w[2]] :
            k \in {"json", "plain"}, w \in {<< <<>>, <<>> >>, << <<" ">>, <<"\n">> >>}}

\* the message content a model sends for a payload and a wrapping
Render(reply) ==
    IF reply.wrap.kind = "bare" THEN reply.payload
    ELSE reply.wrap.lead
         \o (IF reply.wrap.kind = "json" THEN FenceJson ELSE Fence)
         \o <<"\n">> \o reply.payload \o <<"\n">> \o Fence \o reply.wrap.trail

Replies ==
    {[payload |-> pl, wrap |-> w] :
        pl \in JsonPayloads \cup PiecePayloads \cup {ExamplePayload}, w \in Wraps}
\* the replies of the orchestrator's runs
MainReplies ==
    {[payload |-> pl, wrap |-> w] :
        pl \in {ExamplePayload, <<"x">>, <<"{", "}">>},
        w \in {x \in Wraps : x.lead = <<>>}}
NoReply == [payload |-> <<>>, wrap |-> [kind |-> "unset", lead |-> <<>>, trail |-> <<>>]]

Message(content) == [message |-> [role |-> <<"assistant">>, content |-> content]]
\* the choices after the first one
ExtraChoices == SeqsUpTo({Message(<<"x">>), Message(<<"{", "}">>)}, MaxChoices - 1)

\* response statuses and error bodies of the chat-completion endpoint
Statuses == {200, 404, 500}
ErrorBodies == {<<>>, <<"q", "u", "o", "t", "a">>}

(***************************************************************************)
(* State.                                                                  *)
(***************************************************************************)
VARIABLES
    pc,            \* where the run stands
    entry,         \* the function the run entered: "main", "scrape_webpage",
                   \* "get_webpage_content" or "extract_recipe_info"
    apiKeySet,     \* whether OPENROUTER_API_KEY is set
    url,           \* the url argument of scrape_webpage
    clientsBuilt,  \* HTTP clients built by scrape_webpage
    getCalls,      \* GET requests issued
    elapsed,       \* seconds of the GET's total timeout used up
    scrapeResult,  \* what scrape_webpage returned, once it has
    ret,           \* what get_webpage_content returned, once it has
    page,          \* main's page
    stdout,        \* lines main printed
    stderr,        \* lines main printed to stderr
    exit,          \* what main returned
    page_content,   \* the page_content argument of extract_recipe_info
    postCalls,     \* POST requests issued
    status,        \* the status of the chat-completion response, 0 before it
    errorBody,     \* the body of a non-2xx response, as far as it could be read
    jsonCalls,     \* response.json() calls
    llmReply,      \* the payload and wrapping behind the first choice
    choices,       \* chat_response.choices
    content,       \* the first choice's message content
    cleaned_content, \* cleaned_content, once computed
    recipe_data,   \* recipe_data, once parsed
    recipe_info_result   \* what extract_recipe_info returned, once it has

scrapeVars == <<url, clientsBuilt, getCalls, elapsed, scrapeResult, ret>>
mainVars == <<apiKeySet, page, stdout, stderr, exit>>
extractVars ==
    <<page_content, postCalls, status, errorBody, jsonCalls, llmReply, choices,
      content, cleaned_content, recipe_data, recipe_info_result>>
vars == <<pc, entry, scrapeVars, mainVars, extractVars>>

\* Duration::from_secs(30)
TimeoutSecs == 30
\* the moments at which a pending request can resolve
Moments == {1, TimeoutSecs}

Unset == [set |-> FALSE]
Set(x) == [set |-> TRUE, v |-> x]

InitCommon ==
    /\ clientsBuilt = 0
    /\ getCalls = 0
    /\ elapsed = 0
    /\ scrapeResult = Unset
    /\ ret = Unset
    /\ page = Unset
    /\ stdout = <<>>
    /\ stderr = <<>>
    /\ exit = Unset
    /\ postCalls = 0
    /\ status = 0
    /\ errorBody = Unset
    /\ jsonCalls = 0
    /\ llmReply = NoReply
    /\ choices = Unset
    /\ content = Unset
    /\ cleaned_content = Unset
    /\ recipe_data = Unset
    /\ recipe_info_result = Unset

\* a run of the binary
Init ==
    /\ InitCommon
    /\ entry = "main"
    /\ pc = "main"
    /\ apiKeySet \in BOOLEAN
    /\ url = MainUrl
    /\ page_content = Unset

\* a call of scrape_webpage or of get_webpage_content
InitScrape ==
    /\ InitCommon
    /\ entry \in {"scrape_webpage", "get_webpage_content"}
    /\ pc = "scrape"
    /\ apiKeySet = FALSE
    /\ url \in Urls
    /\ page_content = Unset

\* a call of extract_recipe_info
InitExtract ==
    /\ InitCommon
    /\ entry = "extract_recipe_info"
    /\ pc = "extract"
    /\ apiKeySet = TRUE
    /\ url = <<>>
    /\ page_content = Set(<<"a", " ", "a">>)

(***************************************************************************)
(* main.rs                                                                 *)
(***************************************************************************)
\* main up to the call of scrape_webpage: the key is read or main panics
MainStart ==
    /\ pc = "main"
    /\ IF apiKeySet
       THEN /\ pc' = "scrape"
            /\ stdout' = Append(stdout, <<"Scraping recipe from: ">> \o url)
       ELSE /\ pc' = "panicked"
            /\ UNCHANGED stdout
    /\ UNCHANGED <<entry, scrapeVars, apiKeySet, page, stderr, exit, extractVars>>

\* a match that goes on to the extraction whatever scrape_webpage returned
MainMatchIgnoringErr ==
    /\ pc = "scrape_ret"
    /\ entry = "main"
    /\ pc' = "extract"
    /\ page' = IF scrapeResult.v.ok THEN Set(scrapeResult.v.v) ELSE page
    /\ page_content' = IF scrapeResult.v.ok THEN Set(scrapeResult.v.v.content)
                      ELSE Set(<<>>)
    /\ stdout' = Append(stdout, <<"Extracting recipe information with LLM...">>)
    /\ UNCHANGED <<stderr, exit>>
    /\ UNCHANGED <<entry, scrapeVars, apiKeySet, postCalls, status, errorBody,
                   jsonCalls, llmReply, choices, content, cleaned_content, recipe_data,
                   recipe_info_result>>

\* the match on scrape_webpage's result: keep the page and go on to call
\* extract_recipe_info with its content, or print the error and return it
MainMatch ==
    /\ pc = "scrape_ret"
    /\ entry = "main"
    /\ IF scrapeResult.v.ok
       THEN /\ page' = Set(scrapeResult.v.v)
            /\ stdout' = Append(Append(stdout,
                            <<"Successfully scraped: ">> \o scrapeResult.v.v.title),
                            <<"Extracting recipe information with LLM...">>)
            /\ page_content' = Set(scrapeResult.v.v.content)
            /\ pc' = "extract"
            /\ UNCHANGED <<stderr, exit>>
       ELSE /\ stderr' = Append(stderr,
                            <<"Scraping error: ">> \o ScraperErrorDisplay(scrapeResult.v))
            /\ exit' = Set(scrapeResult.v)
            /\ pc' = "done"
            /\ UNCHANGED <<page, stdout, page_content>>
    /\ UNCHANGED <<entry, scrapeVars, apiKeySet, postCalls, status, errorBody,
                   jsonCalls, llmReply, choices, content, cleaned_content, recipe_data,
                   recipe_info_result>>

\* the result of extract_recipe_info is printed and main returns Ok(())
MainReport ==
    /\ pc = "extract_ret"
    /\ entry = "main"
    /\ stdout' = Append(stdout, <<"Recipe Information:">>)
    /\ exit' = Set(Ok(<<>>))
    /\ pc' = "done"
    /\ UNCHANGED <<entry, scrapeVars, apiKeySet, page, stderr, extractVars>>

(***************************************************************************)
(* recipe_scraper.rs                                                       *)
(***************************************************************************)
\* scrape_webpage without the test for an empty url
scrape_webpage_unchecked ==
    /\ pc = "scrape"
    /\ clientsBuilt' = clientsBuilt + 1
    /\ getCalls' = getCalls + 1
    /\ pc' = "get_wait"
    /\ UNCHANGED <<entry, url, elapsed, scrapeResult, ret, mainVars, extractVars>>

\* scrape_webpage up to send().await: the url is checked, the client is
\* built (which may fail) and the GET is issued
scrape_webpage ==
    /\ pc = "scrape"
    /\ IF url = <<>>
       THEN /\ scrapeResult' = Set(Err("InvalidUrl", <<"URL cannot be empty">>))
            /\ pc' = "scrape_ret"
            /\ UNCHANGED <<clientsBuilt, getCalls>>
       ELSE \E built \in BOOLEAN :
              IF built
              THEN /\ clientsBuilt' = clientsBuilt + 1
                   /\ getCalls' = getCalls + 1
                   /\ pc' = "get_wait"
                   /\ UNCHANGED scrapeResult
              ELSE /\ scrapeResult' = Set(Err("NetworkError", <<"builder error">>))
                   /\ pc' = "scrape_ret"
                   /\ UNCHANGED <<clientsBuilt, getCalls>>
    /\ UNCHANGED <<entry, url, elapsed, ret, mainVars, extractVars>>

\* send().await resolves: with a response, with the timeout elapsed, or with
\* another transport failure
GetResolved ==
    /\ pc = "get_wait"
    /\ \E t \in Moments, failed \in BOOLEAN :
         /\ elapsed' = t
         /\ IF t >= TimeoutSecs
            THEN /\ failed
                 /\ scrapeResult' = Set(Err("TimeoutError", <<>>))
                 /\ pc' = "scrape_ret"
            ELSE IF failed
            THEN /\ scrapeResult' = Set(Err("NetworkError", <<"error sending request">>))
                 /\ pc' = "scrape_ret"
            ELSE /\ pc' = "body_wait"
                 /\ UNCHANGED scrapeResult
    /\ UNCHANGED <<entry, url, clientsBuilt, getCalls, ret, mainVars, extractVars>>

\* parse_response: response.text().await resolves, with the body, with the
\* timeout elapsed, or with another failure; a failure becomes NetworkError
\* through From<reqwest::Error>; a body is parsed
parse_response(documents) ==
    /\ pc = "body_wait"
    /\ \E t \in {m \in Moments : m >= elapsed} :
         /\ elapsed' = t
         /\ IF t >= TimeoutSecs
            THEN scrapeResult' = Set(Err("NetworkError", <<"operation timed out">>))
            ELSE \/ scrapeResult' = Set(Err("NetworkError", <<"error decoding response body">>))
                 \/ \E html \in documents : scrapeResult' = Set(WebPageOf(html, url))
    /\ pc' = "scrape_ret"
    /\ UNCHANGED <<entry, url, clientsBuilt, getCalls, ret, mainVars, extractVars>>

\* get_webpage_content: the error is passed on, a page gives its content
get_webpage_content ==
    /\ pc = "scrape_ret"
    /\ entry = "get_webpage_content"
    /\ ret' = Set(IF scrapeResult.v.ok THEN Ok(scrapeResult.v.v.content)
                  ELSE scrapeResult.v)
    /\ pc' = "done"
    /\ UNCHANGED <<entry, url, clientsBuilt, getCalls, elapsed, scrapeResult,
                   mainVars, extractVars>>

(***************************************************************************)
(* llm_utils.rs                                                            *)
(***************************************************************************)
\* extract_recipe_info up to send().await and the status test: the prompt
\* is built around page_content and posted; a transport failure returns
\* NetworkError, a non-2xx status goes on to read the error text, a 2xx
\* status goes on to deserialize the body
ExtractSend ==
    /\ pc = "extract"
    /\ postCalls' = postCalls + 1
    /\ \/ /\ recipe_info_result' = Set(Err("NetworkError", <<"error sending request">>))
          /\ pc' = "extract_ret"
          /\ UNCHANGED status
       \/ \E st \in Statuses :
            /\ status' = st
            /\ pc' = IF IsSuccess(st) THEN "json_wait" ELSE "text_wait"
            /\ UNCHANGED recipe_info_result
    /\ UNCHANGED <<entry, scrapeVars, mainVars, page_content, errorBody, jsonCalls,
                   llmReply, choices, content, cleaned_content, recipe_data>>

\* response.text().await.unwrap_or_default() resolves and ApiError returns
ErrorTextResolved ==
    /\ pc = "text_wait"
    /\ \E body \in {Unset} \cup {Set(b) : b \in ErrorBodies} :
         /\ errorBody' = body
         /\ recipe_info_result' =
              Set(Err("ApiError",
                      ApiErrorDetail(status, IF body.set THEN body.v ELSE <<>>)))
    /\ pc' = "extract_ret"
    /\ UNCHANGED <<entry, scrapeVars, mainVars, page_content, postCalls, status,
                   jsonCalls, llmReply, choices, content, cleaned_content, recipe_data>>

\* response.json().await resolves and the function runs to its return: a
\* body that is no ChatResponse is a ParseError; no choices is
\* InvalidResponse; otherwise the first choice's content is cleaned, parsed
\* and turned into a RecipeInfo
JsonResolved(replies, extras) ==
    /\ pc = "json_wait"
    /\ jsonCalls' = jsonCalls + 1
    /\ \/ /\ recipe_info_result' = Set(Err("ParseError", <<"Failed to parse JSON response">>))
          /\ UNCHANGED <<llmReply, choices, content, cleaned_content, recipe_data>>
       \/ \E reply \in replies \cup {NoReply}, extra \in extras :
            LET cs == IF reply = NoReply THEN <<>>
                      ELSE <<Message(Render(reply))>> \o extra
            IN  /\ llmReply' = reply
                /\ choices' = Set(cs)
                /\ IF cs = <<>>
                   THEN /\ recipe_info_result' = Set(Err("InvalidResponse", <<>>))
                        /\ UNCHANGED <<content, cleaned_content, recipe_data>>
                   ELSE LET c == FirstChoiceContent(cs)
                            parsed == FromStr(CleanContent(c))
                        IN  /\ content' = Set(c)
                            /\ cleaned_content' = Set(CleanContent(c))
                            /\ recipe_data' = IF parsed.ok THEN Set(parsed.v) ELSE Unset
                            /\ recipe_info_result' = Set(RecipeFromContent(c))
    /\ pc' = "extract_ret"
    /\ UNCHANGED <<entry, scrapeVars, mainVars, page_content, postCalls, status,
                   errorBody>>

(***************************************************************************)
(* Specifications.                                                         *)
(***************************************************************************)
\* a run of the binary, over a few documents and replies
Next ==
    \/ MainStart
    \/ scrape_webpage
    \/ GetResolved
    \/ parse_response(MainDocs)
    \/ MainMatch
    \/ ExtractSend
    \/ ErrorTextResolved
    \/ JsonResolved(MainReplies, ExtraChoices)
    \/ MainReport
Spec == Init /\ [][Next]_vars

\* the scraper alone, over every document of the bound
NextScrape ==
    \/ scrape_webpage
    \/ GetResolved
    \/ parse_response(Docs)
    \/ get_webpage_content
SpecScrape == InitScrape /\ [][NextScrape]_vars

\* the extractor alone, over every reply of the bounds
NextExtract ==
    \/ ExtractSend
    \/ ErrorTextResolved
    \/ JsonResolved(Replies, {<<>>})
SpecExtract == InitExtract /\ [][NextExtract]_vars

(***************************************************************************)
(* Properties.                                                             *)
(***************************************************************************)
ExtractPcs == {"extract", "text_wait", "json_wait", "extract_ret"}
ScrapeFailed == scrapeResult.set /\ ~scrapeResult.v.ok

\* C1: the extraction stage is entered, and the POST issued, only after
\* scrape_webpage returned a page, and with that page's content; after any
\* ScraperError the run reports that error and stops, and the extraction
\* stage is never entered.
C1_ExtractionOnlyAfterScrape ==
    /\ (pc \in ExtractPcs \/ postCalls > 0 \/ page_content.set \/ recipe_info_result.set)
          => /\ scrapeResult.set
             /\ scrapeResult.v.ok
             /\ page = Set(scrapeResult.v.v)
             /\ page_content = Set(scrapeResult.v.v.content)
    /\ ScrapeFailed
          => /\ pc \in {"scrape_ret", "done"}
             /\ postCalls = 0
             /\ ~page_content.set
             /\ ~recipe_info_result.set
             /\ pc = "done"
                   => /\ exit = Set(scrapeResult.v)
                      /\ stderr = << <<"Scraping error: ">>
                                     \o ScraperErrorDisplay(scrapeResult.v) >>

\* a run that ended on a scrape error, with no POST issued
C1_Witness ==
    /\ pc = "done"
    /\ ScrapeFailed
    /\ scrapeResult.v.err = "EmptyContent"
    /\ exit = Set(scrapeResult.v)
    /\ postCalls = 0

\* C2: with the empty string as url, scrape_webpage (and get_webpage_content
\* through it) fails with InvalidUrl, no client is built and no request is
\* issued.
C2_EmptyUrlIsInvalidUrl ==
    url = <<>>
       => /\ clientsBuilt = 0
          /\ getCalls = 0
          /\ pc /= "scrape"
                => /\ scrapeResult.set
                   /\ ~scrapeResult.v.ok
                   /\ scrapeResult.v.err = "InvalidUrl"
          /\ (entry = "get_webpage_content" /\ pc = "done")
                => /\ ~ret.v.ok
                   /\ ret.v.err = "InvalidUrl"

\* get_webpage_content("") has returned
C2_Witness ==
    /\ url = <<>>
    /\ entry = "get_webpage_content"
    /\ pc = "done"
    /\ ret.set
    /\ ret.v.err = "InvalidUrl"
    /\ getCalls = 0

RecipeReturned == recipe_info_result.set /\ recipe_info_result.v.ok /\ recipe_data.set
FieldOf(info, key) ==
    CASE key = KeyPrepTime -> info.prep_time
      [] key = KeyCookTime -> info.cook_time
      [] key = KeyTotalTime -> info.total_time
      [] key = KeyServings -> info.servings

\* C3: an optional field is absent when its source value is missing, is no
\* string, is empty after trimming or equals "null" in any letter case; in
\* every other case it is present and is the trimmed source string; a
\* present field is never the empty string.
C3_OptionalFieldsNormalised ==
    RecipeReturned
       => \A key \in ScalarKeys :
            LET src == Index(recipe_data.v, key)
                field == FieldOf(recipe_info_result.v.v, key)
            IN  /\ IF \/ src.t /= "str"
                      \/ Trim(src.s) = <<>>
                      \/ ToLowercase(src.s) = NullStr
                   THEN field = None
                   ELSE field = Some(Trim(src.s))
                /\ field.some => field.v /= <<>>

\* the strings among the elements of a JSON array, in order
StringsOf(a) == SelectSeq(a, LAMBDA v : v.t = "str")

\* C4: every entry of ingredients is a trimmed, non-empty string; the list is
\* the string elements of the source array, in order, each trimmed, and is
\* empty when "ingredients" is missing or no array.
C4_IngredientsTrimmedNonEmpty ==
    RecipeReturned
       => LET src == Index(recipe_data.v, KeyIngredients)
              list == recipe_info_result.v.v.ingredients
              strs == IF src.t = "arr" THEN StringsOf(src.a) ELSE <<>>
          IN  /\ Len(list) = Len(strs)
              /\ \A i \in 1..Len(list) :
                    /\ list[i] = Trim(strs[i].s)
                    /\ list[i] /= <<>>

\* C5: a first-choice content that is a JSON object payload in a tagged or
\* untagged fence, with or without whitespace around it, is cleaned to the
\* trimmed payload, with no fence and no tag left, and gives the parsed
\* object and the result that the bare payload gives.
C5_FencedPayloadAsBare ==
    (content.set /\ llmReply.wrap.kind \in {"json", "plain"})
       => LET bare == FromStr(llmReply.payload)
          IN  (bare.ok /\ bare.v.t = "obj")
                 => /\ content.v /= llmReply.payload
                    /\ cleaned_content.v = Trim(llmReply.payload)
                    /\ recipe_data = Set(bare.v)
                    /\ recipe_info_result = Set(Ok(BuildRecipeInfo(bare.v)))

\* the example payload, in a tagged fence with whitespace around it, gave
\* the RecipeInfo of the example
C5_Witness ==
    /\ pc = "extract_ret"
    /\ llmReply.payload = ExamplePayload
    /\ llmReply.wrap = [kind |-> "json", lead |-> <<" ">>, trail |-> <<"\n">>]
    /\ recipe_info_result.set
    /\ recipe_info_result.v =
          Ok([ingredients |-> << <<"A">>, <<"B">> >>,
              prep_time |-> None,
              cook_time |-> None,
              total_time |-> Some(<<"1", "0", " ", "m", "i", "n">>),
              servings |-> None])

NonSuccess == status /= 0 /\ (status < 200 \/ status > 299)

\* C6: after a non-2xx status the function returns ApiError, whose detail
\* holds the status code and then the response body as read (empty if it
\* could not be read); the body is never deserialized or parsed, and no
\* other result comes of it.
C6_NonSuccessIsApiError ==
    NonSuccess
       => /\ pc \in {"text_wait", "extract_ret", "done"}
          /\ jsonCalls = 0
          /\ ~choices.set
          /\ ~recipe_data.set
          /\ pc /= "text_wait"
                => /\ recipe_info_result.set
                   /\ ~recipe_info_result.v.ok
                   /\ recipe_info_result.v.err = "ApiError"
                   /\ StartsWith(recipe_info_result.v.detail,
                                 <<"H", "T", "T", "P", " ">> \o DecDigits(status))
                   /\ EndsWith(recipe_info_result.v.detail,
                               <<":", " ">> \o (IF errorBody.set THEN errorBody.v ELSE <<>>))

\* a 500 whose body could be read
C6_Witness ==
    /\ status = 500
    /\ errorBody = Set(<<"q", "u", "o", "t", "a">>)
    /\ recipe_info_result.set
    /\ recipe_info_result.v.err = "ApiError"

\* C7: an envelope without choices gives InvalidResponse and no content is
\* taken from it; otherwise the content is the first choice's and the
\* result is what that content alone gives.
C7_FirstChoiceOnly ==
    choices.set
       => IF choices.v = <<>>
          THEN /\ recipe_info_result = Set(Err("InvalidResponse", <<>>))
               /\ ~content.set
               /\ pc /= "panicked"
          ELSE /\ content = Set(choices.v[1].message.content)
               /\ recipe_info_result = Set(RecipeFromContent(choices.v[1].message.content))

\* two choices of different contents, the first one a recipe
C7_Witness ==
    /\ choices.set
    /\ Len(choices.v) = 2
    /\ choices.v[1].message.content /= choices.v[2].message.content
    /\ recipe_info_result.v.ok
    /\ FromStr(choices.v[2].message.content).ok = FALSE

\* C8: for a non-empty url, a request whose 30-second timeout elapsed ends
\* in TimeoutError and never in NetworkError.
C8_TimeoutIsTimeoutError ==
    (url /= <<>> /\ scrapeResult.set /\ elapsed >= TimeoutSecs)
       => /\ ~scrapeResult.v.ok
          /\ scrapeResult.v.err = "TimeoutError"

\* whether the source spells a body start tag
HasBodyTag(html) == \E i \in 1..Len(html) : html[i] = "<body>"

\* C9: the content of a returned page is the text under the body element
\* when the source has a body tag, and the raw source when it has none.
C9_ContentBodyTextOrRaw ==
    (scrapeResult.set /\ scrapeResult.v.ok)
       => LET p == scrapeResult.v.v
              body == SelectBodyText(ParseDocument(p.html))
          IN  IF HasBodyTag(p.html)
              THEN body.some => p.content = body.v
              ELSE p.content = p.html

\* C10, as claimed: applying the cleaning step to its own output returns
\* that output unchanged, for every message content.
C10_CleanIdempotent ==
    cleaned_content.set => CleanContent(cleaned_content.v) = cleaned_content.v

\* C10, amended: applying the cleaning step to its own output returns that
\* output unchanged when the output neither starts nor ends with a fence.
C10_CleanIdempotentOffFences ==
    (/\ cleaned_content.set
     /\ ~StartsWith(cleaned_content.v, Fence)
     /\ ~EndsWith(cleaned_content.v, Fence))
       => CleanContent(cleaned_content.v) = cleaned_content.v

\* a fenced payload was cleaned to the bare payload
C10_Witness ==
    /\ cleaned_content.set
    /\ llmReply.wrap.kind = "plain"
    /\ llmReply.payload = <<"{", "}">>
    /\ cleaned_content.v = <<"{", "}">>
    /\ content.v /= cleaned_content.v

=============================================================================
